---- MODULE Spec2Model ----
(***************************************************************************)
(* Model of the population simulator of src/pages/index.tsx (component     *)
(* Home): the React state of the component, its event handlers, its two    *)
(* effects and the interval callback that advances the simulation.         *)
(*                                                                         *)
(* Numbers.  The sliders deliver decimal fractions; the model keeps them   *)
(* as integers in the slider's own step: replicationChance and deathChance *)
(* in thousandths (step 0.001, 0..500), crowdingCoefficient in             *)
(* ten-thousandths (step 0.0001, 0..100).  Populations are integers (the   *)
(* code rounds every new population).  The code computes in IEEE-754       *)
(* doubles; for the magnitudes reached here the double result of           *)
(* population + populationChange differs from the exact value by less than *)
(* 1e-9, while an exact value that is not a tie (fraction exactly 1/2) is  *)
(* at least 1e-4 away from one.  Math.round of the double therefore equals *)
(* the rounding of the exact value, except at an exact tie, where the sign *)
(* of the representation error decides between the two neighbours: the     *)
(* model admits both there.  The same holds for the quotient rounded by    *)
(* calculateCarryingCapacity.                                              *)
(*                                                                         *)
(* Rendering.  A handler's state updates, the render that follows and the  *)
(* effects of that render (clearing and re-creating the interval, the      *)
(* reset on a startingPopulation change) form one action: they complete    *)
(* within the task of the handler, 500 ms before the interval can fire.    *)
(*                                                                         *)
(* Interval.  The callback of setInterval reads population, time and the   *)
(* rates from the closure of the render that created it; the variable      *)
(* interval holds that closure while an interval is live.  The run effect  *)
(* clears and re-creates the interval when one of its dependencies         *)
(* changes.                                                                *)
(***************************************************************************)
EXTENDS Integers, Sequences, FiniteSets, TLC

VARIABLES
    startingPopulation,   \* useState(100), line 26
    replicationChance,    \* useState(0.1), line 27, in thousandths
    deathChance,          \* useState(0.05), line 28, in thousandths
    crowdingCoefficient,  \* useState(0.001), line 29, in ten-thousandths
    population,           \* line 32
    time,                 \* line 33
    data,                 \* line 34, sequence of DataPoint
    isRunning,            \* line 35
    populationByAge,      \* line 45, count per age 0..MaxAge (<<>> before the first reset)
    showResetWarning,     \* line 48
    pendingHides,         \* number of setTimeout callbacks of line 136 not yet fired
    interval,             \* line 90: {} or {the closure of the live interval}
    lastOp                \* history variable: the handler that ran last

vars == <<startingPopulation, replicationChance, deathChance, crowdingCoefficient,
          population, time, data, isRunning, populationByAge, showResetWarning,
          pendingHides, interval, lastOp>>

simState == <<population, time, data>>

(* ------------------------------ bounds --------------------------------- *)

MaxTime == 3        \* ticks explored by Spec
MaxTimers == 1      \* warning timeouts pending at once in Spec
Horizon == 120      \* ticks explored by the scenario specifications

(* ------------------------- program constants --------------------------- *)

DefaultStartingPopulation == 100
DefaultReplicationChance == 100
DefaultDeathChance == 50
DefaultCrowdingCoefficient == 10
MaxAge == 40
RateScale == 1000
CrowdingScale == 10000
MaxRate == 500          \* slider max 0.5, in thousandths
MaxCrowding == 100      \* slider max 0.01, in ten-thousandths
MinStartingPopulation == 10
MaxStartingPopulation == 1000
StartingPopulationStep == 10

(* Slider positions explored by Spec (all within the sliders' ranges). *)
StartingPopulations == {100, 1000}
ReplicationChances == {100, 500}
DeathChances == {50, 500}
CrowdingCoefficients == {10, 100}

(* ------------------------------ helpers -------------------------------- *)

DataPoint(t, p, dl) == [time |-> t, population |-> p, delta |-> dl]

Max(a, b) == IF a >= b THEN a ELSE b

(* Mutant of MathRound: truncation towards -infinity (Math.floor). *)
MathRoundDown(num, den) == {num \div den}

(* Math.round of the double nearest to num/den (den > 0): the integer      *)
(* nearest to num/den, ties towards +infinity in exact arithmetic, either   *)
(* neighbour at an exact tie of the underlying real value.                 *)
MathRound(num, den) ==
    LET lo == num \div den
        twice == 2 * (num % den)
    IN  IF twice < den THEN {lo}
        ELSE IF twice > den THEN {lo + 1}
        ELSE {lo, lo + 1}

(* Mutant of RawPopulation: the crowding term not scaled by the            *)
(* population (growthRate = r - d - c). *)
RawPopulationFlatCrowding(p, r, d, c) ==
    CrowdingScale * p + ((CrowdingScale \div RateScale) * (r - d) - c) * p

(* Mutant of RawPopulation: the crowding term left out of growthRate. *)
RawPopulationNoCrowding(p, r, d, c) ==
    CrowdingScale * p + ((CrowdingScale \div RateScale) * (r - d)) * p

(* population + populationChange, as a numerator over CrowdingScale:       *)
(*   growthRate = r - d - c * p ; populationChange = growthRate * p        *)
RawPopulation(p, r, d, c) ==
    CrowdingScale * p + ((CrowdingScale \div RateScale) * (r - d) - c * p) * p

(* Mutant of NewPopulations: the clamp at zero left out. *)
NewPopulationsNoClamp(p, r, d, c) ==
    MathRound(RawPopulation(p, r, d, c), CrowdingScale)

(* Math.max(0, Math.round(population + populationChange)) *)
NewPopulations(p, r, d, c) ==
    { Max(0, n) : n \in MathRound(RawPopulation(p, r, d, c), CrowdingScale) }

(* initializeAgeDistribution: floor(startingPopulation / (maxAge + 1)) per age *)
AgeDistribution(sp) == [age \in 0..MaxAge |-> sp \div (MaxAge + 1)]

(* Mutant of calculateCarryingCapacity: Math.floor in place of Math.round. *)
calculateCarryingCapacityFloor(r, d, c) ==
    IF r <= d THEN {0}
    ELSE IF c = 0 THEN {"Infinity"}
    ELSE {((CrowdingScale \div RateScale) * (r - d)) \div c}

(* calculateCarryingCapacity: the set of values the call can return *)
calculateCarryingCapacity(r, d, c) ==
    IF r <= d THEN {0}
    ELSE IF c = 0 THEN {"Infinity"}
    ELSE MathRound((CrowdingScale \div RateScale) * (r - d), c)

(* ------------------------------ actions -------------------------------- *)

(* Mutant of resetSimulation: setTime(0) left out. *)
resetSimulationKeepsTime(sp) ==
    /\ isRunning' = FALSE
    /\ population' = sp
    /\ time' = time
    /\ data' = <<DataPoint(0, sp, 0)>>
    /\ populationByAge' = AgeDistribution(sp)

(* Mutant of resetSimulation: the seed point taken from the current        *)
(* population instead of startingPopulation. *)
resetSimulationSeedsCurrent(sp) ==
    /\ isRunning' = FALSE
    /\ population' = sp
    /\ time' = 0
    /\ data' = <<DataPoint(0, population, 0)>>
    /\ populationByAge' = AgeDistribution(sp)

(* The values the interval callback reads from its closure. *)
Closure ==
    [population |-> population, time |-> time,
     replicationChance |-> replicationChance, deathChance |-> deathChance,
     crowdingCoefficient |-> crowdingCoefficient]

(* Mutant of RunEffectDeps: the rates left out of the dependency list. *)
RunEffectDepsNoRates == <<isRunning, time, population>>

(* The dependency list of the run effect (line 118). *)
RunEffectDeps ==
    <<isRunning, time, population, replicationChance, deathChance,
      crowdingCoefficient>>

(* Mutant of RunEffect: the cleanup (clearInterval) left out, so that an   *)
(* interval outlives the render that stops the simulation.                 *)
RunEffectNoCleanup ==
    interval' = IF RunEffectDeps' = RunEffectDeps THEN interval
                ELSE IF isRunning' THEN {Closure'}
                ELSE interval

(* The run effect after the render that follows a handler: when a          *)
(* dependency changed, the cleanup clears the old interval and the effect  *)
(* creates a new one if isRunning; otherwise the interval stays.           *)
RunEffect ==
    interval' = IF RunEffectDeps' = RunEffectDeps THEN interval
                ELSE IF isRunning' THEN {Closure'}
                ELSE {}

(* resetSimulation, run with the startingPopulation sp of the render whose *)
(* closure it belongs to *)
resetSimulation(sp) ==
    /\ isRunning' = FALSE
    /\ population' = sp
    /\ time' = 0
    /\ data' = <<DataPoint(0, sp, 0)>>
    /\ populationByAge' = AgeDistribution(sp)

Init ==
    /\ startingPopulation = DefaultStartingPopulation
    /\ replicationChance = DefaultReplicationChance
    /\ deathChance = DefaultDeathChance
    /\ crowdingCoefficient = DefaultCrowdingCoefficient
    /\ population = DefaultStartingPopulation
    /\ time = 0
    /\ data = <<DataPoint(0, DefaultStartingPopulation, 0)>>
    /\ isRunning = FALSE
    /\ populationByAge = AgeDistribution(DefaultStartingPopulation)
    /\ showResetWarning = FALSE
    /\ pendingHides = 0
    /\ interval = {}
    /\ lastOp = "mount"

(* Mutant of ToggleRunning: Start also restarts the simulation from the    *)
(* seed point. *)
ToggleRunningRestarts ==
    /\ isRunning' = ~isRunning
    /\ population' = IF isRunning THEN population ELSE startingPopulation
    /\ time' = IF isRunning THEN time ELSE 0
    /\ data' = IF isRunning THEN data
               ELSE <<DataPoint(0, startingPopulation, 0)>>
    /\ lastOp' = "toggleRunning"
    /\ UNCHANGED <<startingPopulation, replicationChance, deathChance,
                   crowdingCoefficient, populationByAge,
                   showResetWarning, pendingHides>>
    /\ RunEffect

(* Start/Pause button: setIsRunning(!isRunning) *)
ToggleRunning ==
    /\ isRunning' = ~isRunning
    /\ lastOp' = "toggleRunning"
    /\ UNCHANGED <<startingPopulation, replicationChance, deathChance,
                   crowdingCoefficient, population, time, data, populationByAge,
                   showResetWarning, pendingHides>>
    /\ RunEffect

(* Mutant of Tick: the setIsRunning(false) on extinction left out. *)
TickNoAutoPause ==
    /\ \E cl \in interval :
       \E newPopulation \in NewPopulations(cl.population, cl.replicationChance,
                                            cl.deathChance, cl.crowdingCoefficient) :
          /\ population' = newPopulation
          /\ time' = cl.time + 1
          /\ data' = Append(data, DataPoint(cl.time + 1, newPopulation,
                                            newPopulation - cl.population))
    /\ lastOp' = "tick"
    /\ UNCHANGED <<startingPopulation, replicationChance, deathChance,
                   crowdingCoefficient, populationByAge, showResetWarning,
                   pendingHides, isRunning>>
    /\ RunEffect

(* Mutant of Tick: setTime(newTime) left out. *)
TickSkipsSetTime ==
    /\ \E cl \in interval :
       \E newPopulation \in NewPopulations(cl.population, cl.replicationChance,
                                            cl.deathChance, cl.crowdingCoefficient) :
          /\ population' = newPopulation
          /\ time' = time
          /\ data' = Append(data, DataPoint(cl.time + 1, newPopulation,
                                            newPopulation - cl.population))
          /\ isRunning' = IF newPopulation <= 0 THEN FALSE ELSE isRunning
    /\ lastOp' = "tick"
    /\ UNCHANGED <<startingPopulation, replicationChance, deathChance,
                   crowdingCoefficient, populationByAge, showResetWarning,
                   pendingHides>>
    /\ RunEffect

(* Mutant of Tick: delta taken from the rounded value before the clamp. *)
TickDeltaBeforeClamp ==
    /\ \E cl \in interval :
       \E n \in MathRound(RawPopulation(cl.population, cl.replicationChance,
                                         cl.deathChance, cl.crowdingCoefficient),
                           CrowdingScale) :
          LET newPopulation == Max(0, n)
          IN  /\ population' = newPopulation
              /\ time' = cl.time + 1
              /\ data' = Append(data, DataPoint(cl.time + 1, newPopulation,
                                                n - cl.population))
              /\ isRunning' = IF newPopulation <= 0 THEN FALSE ELSE isRunning
    /\ lastOp' = "tick"
    /\ UNCHANGED <<startingPopulation, replicationChance, deathChance,
                   crowdingCoefficient, populationByAge, showResetWarning,
                   pendingHides>>
    /\ RunEffect

(* Mutant of Tick: the extinction test written newPopulation < 0. *)
TickPausesOnlyBelowZero ==
    /\ \E cl \in interval :
       \E newPopulation \in NewPopulations(cl.population, cl.replicationChance,
                                            cl.deathChance, cl.crowdingCoefficient) :
          /\ population' = newPopulation
          /\ time' = cl.time + 1
          /\ data' = Append(data, DataPoint(cl.time + 1, newPopulation,
                                            newPopulation - cl.population))
          /\ isRunning' = IF newPopulation < 0 THEN FALSE ELSE isRunning
    /\ lastOp' = "tick"
    /\ UNCHANGED <<startingPopulation, replicationChance, deathChance,
                   crowdingCoefficient, populationByAge, showResetWarning,
                   pendingHides>>
    /\ RunEffect

(* The callback of a live interval fires: it computes from the values of   *)
(* its closure, appends to the current data (functional update) and the    *)
(* render that follows re-runs the run effect.                             *)
Tick ==
    /\ \E cl \in interval :
       \E newPopulation \in NewPopulations(cl.population, cl.replicationChance,
                                            cl.deathChance, cl.crowdingCoefficient) :
          LET newTime == cl.time + 1
              delta == newPopulation - cl.population
          IN  /\ population' = newPopulation
              /\ time' = newTime
              /\ data' = Append(data, DataPoint(newTime, newPopulation, delta))
              /\ isRunning' = IF newPopulation <= 0 THEN FALSE ELSE isRunning
    /\ lastOp' = "tick"
    /\ UNCHANGED <<startingPopulation, replicationChance, deathChance,
                   crowdingCoefficient, populationByAge, showResetWarning,
                   pendingHides>>
    /\ RunEffect

(* Mutant of handleResetClick: the isRunning test left out. *)
handleResetClickUnguarded ==
    /\ resetSimulation(startingPopulation)
    /\ lastOp' = "handleResetClick"
    /\ UNCHANGED <<startingPopulation, replicationChance, deathChance,
                   crowdingCoefficient, showResetWarning, pendingHides>>
    /\ RunEffect

(* Reset button *)
handleResetClick ==
    /\ IF isRunning
       THEN /\ showResetWarning' = TRUE
            /\ pendingHides' = pendingHides + 1
            /\ UNCHANGED <<population, time, data, isRunning, populationByAge>>
       ELSE /\ resetSimulation(startingPopulation)
            /\ UNCHANGED <<showResetWarning, pendingHides>>
    /\ lastOp' = "handleResetClick"
    /\ UNCHANGED <<startingPopulation, replicationChance, deathChance,
                   crowdingCoefficient>>
    /\ RunEffect

(* The 3 s timeout of handleResetClick fires *)
HideResetWarning ==
    /\ pendingHides > 0
    /\ pendingHides' = pendingHides - 1
    /\ showResetWarning' = FALSE
    /\ lastOp' = "hideResetWarning"
    /\ UNCHANGED <<startingPopulation, replicationChance, deathChance,
                   crowdingCoefficient, population, time, data, isRunning,
                   populationByAge>>
    /\ RunEffect

(* Mutant of SetStartingPopulation: the effect on [startingPopulation]     *)
(* left out, so that the change resets nothing. *)
SetStartingPopulationNoReset(v) ==
    /\ ~isRunning
    /\ v # startingPopulation
    /\ startingPopulation' = v
    /\ lastOp' = "setStartingPopulation"
    /\ UNCHANGED <<replicationChance, deathChance, crowdingCoefficient,
                   population, time, data, isRunning, populationByAge,
                   showResetWarning, pendingHides>>
    /\ RunEffect

(* Mutant of SetStartingPopulation: the effect resets with the             *)
(* startingPopulation of the previous render (a stale closure). *)
SetStartingPopulationStaleReset(v) ==
    /\ ~isRunning
    /\ v # startingPopulation
    /\ startingPopulation' = v
    /\ resetSimulation(startingPopulation)
    /\ lastOp' = "setStartingPopulation"
    /\ UNCHANGED <<replicationChance, deathChance, crowdingCoefficient,
                   showResetWarning, pendingHides>>
    /\ RunEffect

(* Mutant of SetStartingPopulation: the slider not disabled while running. *)
SetStartingPopulationWhileRunning(v) ==
    /\ v # startingPopulation
    /\ startingPopulation' = v
    /\ resetSimulation(v)
    /\ lastOp' = "setStartingPopulation"
    /\ UNCHANGED <<replicationChance, deathChance, crowdingCoefficient,
                   showResetWarning, pendingHides>>
    /\ RunEffect

(* Starting Population slider (disabled while running) and the effect on   *)
(* [startingPopulation] that the new value triggers                        *)
SetStartingPopulation(v) ==
    /\ ~isRunning
    /\ v # startingPopulation
    /\ startingPopulation' = v
    /\ resetSimulation(v)
    /\ lastOp' = "setStartingPopulation"
    /\ UNCHANGED <<replicationChance, deathChance, crowdingCoefficient,
                   showResetWarning, pendingHides>>
    /\ RunEffect

SetReplicationChance(v) ==
    /\ v # replicationChance
    /\ replicationChance' = v
    /\ lastOp' = "setReplicationChance"
    /\ UNCHANGED <<startingPopulation, deathChance, crowdingCoefficient,
                   population, time, data, isRunning, populationByAge,
                   showResetWarning, pendingHides>>
    /\ RunEffect

SetDeathChance(v) ==
    /\ v # deathChance
    /\ deathChance' = v
    /\ lastOp' = "setDeathChance"
    /\ UNCHANGED <<startingPopulation, replicationChance, crowdingCoefficient,
                   population, time, data, isRunning, populationByAge,
                   showResetWarning, pendingHides>>
    /\ RunEffect

SetCrowdingCoefficient(v) ==
    /\ v # crowdingCoefficient
    /\ crowdingCoefficient' = v
    /\ lastOp' = "setCrowdingCoefficient"
    /\ UNCHANGED <<startingPopulation, replicationChance, deathChance,
                   population, time, data, isRunning, populationByAge,
                   showResetWarning, pendingHides>>
    /\ RunEffect

Next ==
    \/ ToggleRunning
    \/ (time < MaxTime /\ Tick)
    \/ ((isRunning => pendingHides < MaxTimers) /\ handleResetClick)
    \/ HideResetWarning
    \/ \E v \in StartingPopulations : SetStartingPopulation(v)
    \/ \E v \in ReplicationChances : SetReplicationChance(v)
    \/ \E v \in DeathChances : SetDeathChance(v)
    \/ \E v \in CrowdingCoefficients : SetCrowdingCoefficient(v)

Spec == Init /\ [][Next]_vars

(* ------------------------------ claims --------------------------------- *)

Last(seq) == seq[Len(seq)]

(* The population the last tick started from (defined when Len(data) >= 2). *)
PreTickPopulation == data[Len(data) - 1].population

(* C1: in every reachable state the population and every recorded          *)
(* population are non-negative.                                            *)
C1_NonNegative ==
    /\ population >= 0
    /\ \A i \in 1..Len(data) : data[i].population >= 0

(* A tick whose rounded raw population was negative and was clamped to 0. *)
C1_Witness ==
    /\ lastOp = "tick"
    /\ Len(data) >= 2
    /\ RawPopulation(PreTickPopulation, replicationChance, deathChance,
                     crowdingCoefficient) < -CrowdingScale
    /\ population = 0
    /\ Last(data).population = 0

(* C2: a tick from pre-tick population p with the current rates yields the *)
(* integer nearest to p + (r - d - c*p)*p, clamped at 0, appends exactly   *)
(* one entry {time + 1, newPopulation, newPopulation - p} and sets time    *)
(* and population accordingly; delta is taken after rounding and clamping  *)
(* against the pre-tick population.                                        *)
C2_TickRecurrence ==
    [][lastOp' = "tick" =>
        LET growthRate == 10 * replicationChance - 10 * deathChance
                          - crowdingCoefficient * population  \* in 1/10000
            raw == CrowdingScale * population + growthRate * population
            half == CrowdingScale \div 2
            np == population'
        IN  /\ np >= 0
            /\ np > 0 => /\ CrowdingScale * np - raw <= half
                         /\ raw - CrowdingScale * np <= half
            /\ np = 0 => raw <= half
            /\ time' = time + 1
            /\ data' = data \o <<[time |-> time + 1, population |-> np,
                                  delta |-> np - population]>>
    ]_vars

(* A tick that rounded a fractional raw population to a positive one. *)
C2_Witness ==
    /\ lastOp = "tick"
    /\ Len(data) >= 3
    /\ population > 0
    /\ Last(data).delta # 0
    /\ RawPopulation(PreTickPopulation, replicationChance, deathChance,
                     crowdingCoefficient) % CrowdingScale > CrowdingScale \div 2

(* C3: data[i].time equals the index of the entry (counted from 0) for     *)
(* every entry, after any sequence of operations.                          *)
C3_TimeIsIndex ==
    \A i \in 1..Len(data) : data[i].time = i - 1

(* Ticks recorded after a reset that followed earlier ticks. *)
C3_Witness ==
    /\ lastOp = "tick"
    /\ Len(data) >= 3
    /\ startingPopulation # DefaultStartingPopulation
    /\ data[1].population = startingPopulation

(* C4 as stated: once the population is 0 (which only a tick produces),    *)
(* every later tick leaves time, population and data unchanged.            *)
C4_ExtinctTicksAreNoOps ==
    [][/\ (lastOp' = "tick" /\ population' = 0) => ~isRunning'
       /\ (population = 0 /\ lastOp' = "tick") => UNCHANGED simState
    ]_vars

(* C4 amended: a tick that produces population 0 clears isRunning in the   *)
(* same step, and no tick is applied while isRunning is false; a tick      *)
(* applied after the user starts the simulation again keeps population 0,  *)
(* but increments time, appends {time + 1, 0, 0} and clears isRunning.     *)
C4_AutoPauseOnExtinction ==
    [][/\ (lastOp' = "tick" /\ population' = 0) => ~isRunning'
       /\ ~isRunning => lastOp' # "tick"
       /\ (population = 0 /\ lastOp' = "tick") =>
             /\ population' = 0
             /\ time' = time + 1
             /\ data' = Append(data, DataPoint(time + 1, 0, 0))
    ]_vars

(* A tick applied to an extinct population after a restart. *)
C4_Witness ==
    /\ lastOp = "tick"
    /\ Len(data) >= 3
    /\ PreTickPopulation = 0
    /\ population = 0
    /\ ~isRunning

(* C5: a reset click while running leaves time, population, data and       *)
(* isRunning unchanged and raises showResetWarning; a reset click while    *)
(* not running does not raise it.                                          *)
C5_ResetRejectedWhileRunning ==
    [][lastOp' = "handleResetClick" =>
        IF isRunning
        THEN /\ UNCHANGED <<population, time, data, isRunning>>
             /\ showResetWarning'
        ELSE showResetWarning' = showResetWarning
    ]_vars

(* A rejected reset after the simulation has advanced. *)
C5_Witness ==
    /\ lastOp = "handleResetClick"
    /\ isRunning
    /\ showResetWarning
    /\ time > 0
    /\ population # startingPopulation

(* C6: a reset click while not running yields time 0, population =         *)
(* startingPopulation and data = the single seed point; a second reset     *)
(* click right after it yields the identical state.                        *)
C6_ResetIdempotent ==
    [][(lastOp' = "handleResetClick" /\ ~isRunning) =>
        /\ time' = 0
        /\ population' = startingPopulation
        /\ data' = <<[time |-> 0, population |-> startingPopulation, delta |-> 0]>>
        /\ startingPopulation' = startingPopulation
        /\ lastOp = "handleResetClick" =>
              UNCHANGED <<population, time, data, isRunning, populationByAge,
                          startingPopulation, replicationChance, deathChance,
                          crowdingCoefficient>>
    ]_vars

(* A reset performed while the warning of an earlier rejected reset is     *)
(* still shown, i.e. after the simulation ran and was paused.              *)
C6_Witness ==
    /\ lastOp = "handleResetClick"
    /\ ~isRunning
    /\ showResetWarning
    /\ time = 0
    /\ Len(data) = 1
    /\ population = startingPopulation

(* ----------------------- scenario specifications ----------------------- *)

(* The simulation is started once and then only ticks: the interval of the *)
(* run effect fires every 500 ms for as long as isRunning holds.           *)
StartOnce == ~isRunning /\ time = 0 /\ ToggleRunning

NextScenario ==
    \/ StartOnce
    \/ (time < Horizon /\ Tick)

(* Scenario A/B: the default parameters. *)
SpecDefault == Init /\ [][NextScenario]_vars /\ WF_vars(NextScenario)

(* Scenario C: replicationChance 0.01, deathChance 0.1, startingPopulation *)
(* 50 and every positive position of the crowding slider.                  *)
InitDecline ==
    /\ startingPopulation = 50
    /\ replicationChance = 10
    /\ deathChance = 100
    /\ crowdingCoefficient \in 1..MaxCrowding
    /\ population = 50
    /\ time = 0
    /\ data = <<DataPoint(0, 50, 0)>>
    /\ isRunning = FALSE
    /\ populationByAge = AgeDistribution(50)
    /\ showResetWarning = FALSE
    /\ pendingHides = 0
    /\ interval = {}
    /\ lastOp = "setStartingPopulation"

SpecDecline == InitDecline /\ [][NextScenario]_vars /\ WF_vars(NextScenario)

(* The rate sliders alone, over their whole ranges (deathChance at a few   *)
(* positions), one step of a slider at a time.                             *)
CapacityDeathChances == {0, 50, 499, 500}

InitCapacity ==
    /\ startingPopulation = DefaultStartingPopulation
    /\ replicationChance \in 0..MaxRate
    /\ deathChance \in CapacityDeathChances
    /\ crowdingCoefficient \in 0..MaxCrowding
    /\ population = DefaultStartingPopulation
    /\ time = 0
    /\ data = <<DataPoint(0, DefaultStartingPopulation, 0)>>
    /\ isRunning = FALSE
    /\ populationByAge = AgeDistribution(DefaultStartingPopulation)
    /\ showResetWarning = FALSE
    /\ pendingHides = 0
    /\ interval = {}
    /\ lastOp = "mount"

NextCapacity ==
    \/ \E v \in {replicationChance - 1, replicationChance + 1} \cap (0..MaxRate) :
          SetReplicationChance(v)
    \/ \E v \in CapacityDeathChances : SetDeathChance(v)
    \/ \E v \in {crowdingCoefficient - 1, crowdingCoefficient + 1} \cap (0..MaxCrowding) :
          SetCrowdingCoefficient(v)

SpecCapacity == InitCapacity /\ [][NextCapacity]_vars

(* C7 (SpecDecline): the population eventually reaches 0.  In this         *)
(* scenario only ticks change the population and the rates are fixed, so   *)
(* the population reaches 0 exactly if every positive population is        *)
(* lowered by the tick applied to it: some outcome of the tick must be     *)
(* below the current population.                                           *)
C7_DeclinesToExtinction ==
    population > 0 =>
        \E np \in NewPopulations(population, replicationChance, deathChance,
                                 crowdingCoefficient) : np < population

(* C8 as stated (SpecDefault): tick 1 records population 104, delta 4 and  *)
(* tick 2 records population 104, delta 0.                                 *)
C8_ScenarioA_AsStated ==
    /\ time >= 1 => data[2] = [time |-> 1, population |-> 104, delta |-> 4]
    /\ time >= 2 => data[3] = [time |-> 2, population |-> 104, delta |-> 0]

(* C8 amended (SpecDefault): growthRate = 0.1 - 0.05 - 0.001*100 = -0.05,  *)
(* so tick 1 records population 95, delta -5; tick 2 starts from 95:       *)
(* growthRate = -0.045, change = -4.275, 90.725 rounds to 91, delta -4.    *)
C8_ScenarioA ==
    /\ time >= 1 => data[2] = [time |-> 1, population |-> 95, delta |-> -5]
    /\ time >= 2 => data[3] = [time |-> 2, population |-> 91, delta |-> -4]

(* The state after the second tick of the scenario. *)
C8_Witness ==
    /\ lastOp = "tick"
    /\ time = 2
    /\ population = 91

C10_CarryingCapacity ==
    LET K == calculateCarryingCapacity(replicationChance, deathChance,
                                       crowdingCoefficient)
        diff == 10 * (replicationChance - deathChance)  \* in 1/10000
    IN  /\ K # {}
        /\ replicationChance <= deathChance => K = {0}
        /\ (replicationChance > deathChance /\ crowdingCoefficient > 0) =>
              \A k \in K : /\ 2 * (crowdingCoefficient * k - diff) <= crowdingCoefficient
                           /\ 2 * (diff - crowdingCoefficient * k) <= crowdingCoefficient

(* Parameters whose quotient has a fraction above 1/2, so that it rounds   *)
(* up: (0.007 - 0) / 0.0004 = 17.5 is excluded, (0.05 - 0) / 0.0003 is in. *)
C10_Witness ==
    /\ replicationChance > deathChance
    /\ crowdingCoefficient > 0
    /\ 2 * ((10 * (replicationChance - deathChance)) % crowdingCoefficient)
         > crowdingCoefficient
    /\ lastOp = "setCrowdingCoefficient"

(* C11: data is never empty and its first entry is the seed point of the   *)
(* current startingPopulation: {time 0, startingPopulation, delta 0}.      *)
C11_SeedPointFirst ==
    /\ Len(data) >= 1
    /\ data[1] = [time |-> 0, population |-> startingPopulation, delta |-> 0]

(* Ticks recorded after a change of startingPopulation that followed       *)
(* earlier ticks (a startingPopulation other than the default).            *)
C11_Witness ==
    /\ lastOp = "tick"
    /\ Len(data) >= 3
    /\ startingPopulation = 1000
    /\ population # startingPopulation

(* C12: while isRunning is false no interval is live and no tick is        *)
(* applied: a step taken then is not a tick, and unless it is a reset      *)
(* (Reset button or startingPopulation change) it leaves time, population  *)
(* and data unchanged; the step that clears isRunning clears the interval. *)
C12_NoTickWhileInactive ==
    [][/\ ~isRunning =>
            /\ interval = {}
            /\ lastOp' # "tick"
            /\ lastOp' \notin {"handleResetClick", "setStartingPopulation"}
                  => UNCHANGED simState
       /\ ~isRunning' => interval' = {}
    ]_vars

(* The simulation paused by the user after it advanced, with a population  *)
(* that the next tick would change. *)
C12_Witness ==
    /\ lastOp = "toggleRunning"
    /\ ~isRunning
    /\ time > 0
    /\ population > 0
    /\ population \notin NewPopulations(population, replicationChance,
                                        deathChance, crowdingCoefficient)

(* C13: the Start/Pause button flips isRunning and changes nothing else    *)
(* of the simulation: time, population, data and all parameters stay.      *)
C13_ToggleChangesOnlyFlag ==
    [][lastOp' = "toggleRunning" =>
        /\ isRunning' = ~isRunning
        /\ UNCHANGED <<population, time, data, startingPopulation,
                       replicationChance, deathChance, crowdingCoefficient,
                       populationByAge, showResetWarning, pendingHides>>
    ]_vars

(* The simulation started again after it advanced and was paused. *)
C13_Witness ==
    /\ lastOp = "toggleRunning"
    /\ isRunning
    /\ time > 0
    /\ population > 0

RateOps == {"setReplicationChance", "setDeathChance", "setCrowdingCoefficient"}

ResetOps == {"handleResetClick", "setStartingPopulation"}

(* C14: startingPopulation changes only while isRunning is false, and a    *)
(* step that changes it leaves time 0, population = the new                *)
(* startingPopulation, data = the single seed point of the new value and   *)
(* isRunning false.                                                        *)
C14_StartingPopulationChangeResets ==
    [][startingPopulation' # startingPopulation =>
        /\ ~isRunning
        /\ ~isRunning'
        /\ time' = 0
        /\ population' = startingPopulation'
        /\ data' = <<[time |-> 0, population |-> startingPopulation',
                      delta |-> 0]>>
    ]_vars

(* A change of startingPopulation made while the warning of a rejected     *)
(* reset was still shown, i.e. after the simulation ran and was paused.    *)
C14_Witness ==
    /\ lastOp = "setStartingPopulation"
    /\ showResetWarning
    /\ startingPopulation = 1000
    /\ population = 1000
    /\ time = 0

(* C15: a change of a rate leaves time, population, data and isRunning     *)
(* unchanged, and a tick that directly follows it computes the new         *)
(* population from the rates as changed.                                   *)
C15_RateChangeAffectsNextTick ==
    [][/\ lastOp' \in RateOps => UNCHANGED <<time, population, data, isRunning>>
       /\ (lastOp \in RateOps /\ lastOp' = "tick") =>
             /\ population' \in NewPopulations(population, replicationChance,
                                               deathChance, crowdingCoefficient)
             /\ time' = time + 1
    ]_vars

(* A later tick computed with a replicationChance changed from the         *)
(* default, whose result differs from what the default would have given.   *)
C15_Witness ==
    /\ lastOp = "tick"
    /\ Len(data) >= 3
    /\ replicationChance = 500
    /\ population \notin NewPopulations(PreTickPopulation, DefaultReplicationChance,
                                        deathChance, crowdingCoefficient)
    /\ population \in NewPopulations(PreTickPopulation, replicationChance,
                                     deathChance, crowdingCoefficient)

(* C16: isRunning is false initially; it turns false only through the      *)
(* Start/Pause button or a tick that produces population 0, and true only  *)
(* through the Start/Pause button; a reset (Reset button or                *)
(* startingPopulation change) that changes the simulation state is taken   *)
(* only while isRunning is false and leaves it false.                      *)
C16_ActiveFlagTransitions ==
    /\ ~isRunning
    /\ [][/\ (isRunning /\ ~isRunning') =>
                \/ lastOp' = "toggleRunning"
                \/ (lastOp' = "tick" /\ population' = 0)
          /\ (~isRunning /\ isRunning') => lastOp' = "toggleRunning"
          /\ (lastOp' \in ResetOps /\ simState' # simState) =>
                (~isRunning /\ ~isRunning')
       ]_vars

(* The tick that produced population 0 and paused the simulation. *)
C16_Witness ==
    /\ lastOp = "tick"
    /\ population = 0
    /\ PreTickPopulation > 0
    /\ ~isRunning

(* ---------------------- equilibrium specification ---------------------- *)

(* The positions of the Starting Population slider. *)
SliderPopulations ==
    { n \in MinStartingPopulation..MaxStartingPopulation :
        n % StartingPopulationStep = 0 }

(* The rate sliders anywhere with replicationChance > deathChance and a    *)
(* positive crowdingCoefficient; the Starting Population slider set to the *)
(* carrying capacity where it has such a position, and left at its default*)
(* otherwise.  The simulation is then started once and ticks.              *)
InitEquilibrium ==
    /\ replicationChance \in 1..MaxRate
    /\ deathChance \in CapacityDeathChances
    /\ replicationChance > deathChance
    /\ crowdingCoefficient \in 1..MaxCrowding
    /\ LET K == calculateCarryingCapacity(replicationChance, deathChance,
                                          crowdingCoefficient) \cap SliderPopulations
       IN  startingPopulation \in IF K # {} THEN K ELSE {DefaultStartingPopulation}
    /\ population = startingPopulation
    /\ time = 0
    /\ data = <<DataPoint(0, startingPopulation, 0)>>
    /\ isRunning = FALSE
    /\ populationByAge = AgeDistribution(startingPopulation)
    /\ showResetWarning = FALSE
    /\ pendingHides = 0
    /\ interval = {}
    /\ lastOp = "setStartingPopulation"

NextEquilibrium ==
    \/ StartOnce
    \/ (time < MaxTime /\ Tick)

SpecEquilibrium == InitEquilibrium /\ [][NextEquilibrium]_vars

(* C17 (SpecEquilibrium): with replicationChance > deathChance and         *)
(* crowdingCoefficient > 0 the recurrence maps the carrying capacity to    *)
(* itself, and a tick applied when population is the carrying capacity     *)
(* leaves population unchanged and records delta 0.                        *)
C17_CapacityIsFixedPoint ==
    /\ [](\A k \in calculateCarryingCapacity(replicationChance, deathChance,
                                             crowdingCoefficient) :
             NewPopulations(k, replicationChance, deathChance,
                            crowdingCoefficient) = {k})
    /\ [][(/\ lastOp' = "tick"
           /\ population \in calculateCarryingCapacity(
                  replicationChance, deathChance, crowdingCoefficient)) =>
             /\ population' = population
             /\ Last(data') = [time |-> time + 1, population |-> population,
                               delta |-> 0]
       ]_vars

(* A tick applied at the carrying capacity, with a growth rate that is not *)
(* exactly zero there (the capacity is a rounded quotient).                *)
C17_Witness ==
    /\ lastOp = "tick"
    /\ time >= 1
    /\ population \in calculateCarryingCapacity(replicationChance, deathChance,
                                                crowdingCoefficient)
    /\ PreTickPopulation = population
    /\ RawPopulation(population, replicationChance, deathChance,
                     crowdingCoefficient) # CrowdingScale * population

(* C18: the last entry of data mirrors the current state: data has         *)
(* time + 1 entries, and its last entry holds the current time and the     *)
(* current population.                                                     *)
C18_LastEntryMirrorsState ==
    /\ Len(data) = time + 1
    /\ Last(data).time = time
    /\ Last(data).population = population

(* The state after a second or later tick that changed the population. *)
C18_Witness ==
    /\ lastOp = "tick"
    /\ time >= 2
    /\ population # PreTickPopulation
    /\ population > 0

(* C19: every recorded delta but the first is the difference between the   *)
(* entry's population and the population of the entry before it.           *)
C19_DeltaIsDifference ==
    \A i \in 2..Len(data) :
        data[i].delta = data[i].population - data[i - 1].population

(* A history whose last tick was clamped to 0 from a positive population,  *)
(* after an earlier tick that changed the population as well.              *)
C19_Witness ==
    /\ lastOp = "tick"
    /\ Len(data) >= 3
    /\ data[2].delta # 0
    /\ population = 0
    /\ PreTickPopulation > 0
    /\ RawPopulation(PreTickPopulation, replicationChance, deathChance,
                     crowdingCoefficient) < -CrowdingScale

(* C20: from population 0, a tick yields population 0 with delta 0 and     *)
(* clears isRunning, whatever the rates; the population becomes positive   *)
(* again only through a reset (Reset button or startingPopulation change). *)
C20_ExtinctionIsAbsorbing ==
    [][population = 0 =>
        /\ lastOp' = "tick" =>
              /\ population' = 0
              /\ Last(data').delta = 0
              /\ ~isRunning'
        /\ population' > 0 => lastOp' \in ResetOps
    ]_vars

(* A tick applied to an extinct population after a restart, with rates     *)
(* whose growth rate is positive (replicationChance 0.5, deathChance 0.05).*)
C20_Witness ==
    /\ lastOp = "tick"
    /\ Len(data) >= 3
    /\ PreTickPopulation = 0
    /\ Last(data).delta = 0
    /\ replicationChance = 500
    /\ deathChance = 50
    /\ ~isRunning

====
